---- MODULE Spec2Model ----
(***************************************************************************)
(* Websum: fetch a web page, strip it to text, split the text into         *)
(* word-count chunks, summarize every chunk with a language model, join    *)
(* the summaries and keep the result in the session.                       *)
(*                                                                         *)
(* Strings are sequences of one-character strings, so that split, strip,   *)
(* join and startswith are computed on characters.                         *)
(***************************************************************************)
EXTENDS Integers, Sequences, FiniteSets, TLC

VARIABLES
    session_state,  \* st.session_state: a function whose domain is {} or {"summary"}
    pc,             \* where the script run is, or how the last run ended
    url,            \* value of the text input in the current run
    pressed,        \* whether the Summarize button started the current run
    fetched,        \* what requests.get did in the current run
    document_text,  \* local document_text of streamlit_mode
    chunks,         \* the list chunk_text(document_text) the for loop iterates over
    it,             \* number of chunks the for loop has taken from that list
    summaries,      \* local list summaries
    backend,        \* what the backend did at each llm_chain.invoke of the current run
    calls,          \* the calls made so far in the current run, in order
    displayed,      \* the elements the current run has put on the page, in order
    ct_phase,       \* chunk_text called on its own: "off", "input" or "output"
    ct_text,        \* its argument text
    ct_max,         \* its argument max_tokens
    ct_out          \* its result

vars == <<session_state, pc, url, pressed, fetched, document_text, chunks, it, summaries,
          backend, calls, displayed, ct_phase, ct_text, ct_max, ct_out>>

ctVars == <<ct_phase, ct_text, ct_max, ct_out>>

----------------------------------------------------------------------------
(* Bounds *)

\* longest text chunk_text is called with on its own
MaxTextLen == 5
\* largest max_tokens chunk_text is called with on its own
MaxN == 3
\* number of chunks the long page of the model splits into
LongPageChunks == 3

----------------------------------------------------------------------------
(* Strings *)

Whitespace == {" ", "\n", "\t"}

IsSpace(c) == c \in Whitespace

Min(a, b) == IF a < b THEN a ELSE b

\* str.startswith
startswith(s, prefix) ==
    /\ Len(s) >= Len(prefix)
    /\ SubSeq(s, 1, Len(prefix)) = prefix

\* str.strip(): drop leading and trailing whitespace
strip(s) ==
    LET keep == {i \in 1..Len(s) : ~IsSpace(s[i])}
    IN  IF keep = {} THEN <<>>
        ELSE LET first == CHOOSE i \in keep : \A j \in keep : i <= j
                 last  == CHOOSE i \in keep : \A j \in keep : j <= i
             IN  SubSeq(s, first, last)

\* position i starts a maximal run of non-whitespace characters
IsWordStart(s, i) == ~IsSpace(s[i]) /\ (i = 1 \/ IsSpace(s[i-1]))

\* last position of the run of non-whitespace characters that begins at i
WordEnd(s, i) ==
    CHOOSE e \in i..Len(s) :
        /\ \A j \in i..e : ~IsSpace(s[j])
        /\ (e = Len(s) \/ IsSpace(s[e+1]))

\* the words that start at a position of lo..hi, in order
RECURSIVE WordsIn(_, _, _)
WordsIn(s, lo, hi) ==
    IF lo > hi THEN <<>>
    ELSE IF lo = hi
         THEN IF IsWordStart(s, lo) THEN <<SubSeq(s, lo, WordEnd(s, lo))>> ELSE <<>>
         ELSE LET mid == (lo + hi) \div 2
              IN  WordsIn(s, lo, mid) \o WordsIn(s, mid + 1, hi)

\* str.split() without arguments: the maximal runs of non-whitespace characters
split(s) == WordsIn(s, 1, Len(s))

\* sep.join(parts[lo..hi])
RECURSIVE JoinRange(_, _, _, _)
JoinRange(sep, parts, lo, hi) ==
    IF lo > hi THEN <<>>
    ELSE IF lo = hi THEN parts[lo]
         ELSE LET mid == (lo + hi) \div 2
              IN  JoinRange(sep, parts, lo, mid) \o sep \o JoinRange(sep, parts, mid + 1, hi)

\* sep.join(parts)
join(sep, parts) == JoinRange(sep, parts, 1, Len(parts))

\* parts[i:j] with Python's 0-based, end-exclusive, clamped slice
slice(parts, i, j) == SubSeq(parts, i + 1, Min(j, Len(parts)))

\* list(range(0, n, step)) for step > 0
range0(n, step) ==
    LET members == {i \in 0..(n - 1) : i % step = 0}
    IN  [k \in 1..Cardinality(members) |->
            CHOOSE i \in members : Cardinality({j \in members : j < i}) = k - 1]

----------------------------------------------------------------------------
(* chunk_text *)

DefaultMaxTokens == 500

\* a chunker that lets consecutive windows share their boundary word
chunk_text_overlap(text, max_tokens) ==
    LET words  == split(text)
        starts == range0(Len(words), max_tokens)
    IN  [k \in 1..Len(starts) |-> join(<<" ">>, slice(words, starts[k], starts[k] + max_tokens + 1))]

\* a chunker that advances by one word more than it takes
chunk_text_skip(text, max_tokens) ==
    LET words  == split(text)
        starts == range0(Len(words), max_tokens + 1)
    IN  [k \in 1..Len(starts) |-> join(<<" ">>, slice(words, starts[k], starts[k] + max_tokens))]

chunk_text(text, max_tokens) ==
    LET words  == split(text)
        starts == range0(Len(words), max_tokens)
    IN  [k \in 1..Len(starts) |-> join(<<" ">>, slice(words, starts[k], starts[k] + max_tokens))]

----------------------------------------------------------------------------
(* Fixed strings of the program *)

\* the prefix streamlit_mode tests document_text for
ErrorMarker == <<"E", "r", "r", "o", "r">>

\* f"Error loading document: {e}" without e
LoadErrorPrefix ==
    <<"E", "r", "r", "o", "r", " ", "l", "o", "a", "d", "i", "n", "g", " ", "d", "o", "c",
    "u", "m", "e", "n", "t", ":", " ">>

\* f"Error processing chunk: {e}" without e
ChunkErrorPrefix ==
    <<"E", "r", "r", "o", "r", " ", "p", "r", "o", "c", "e", "s", "s", "i", "n", "g", " ",
    "c", "h", "u", "n", "k", ":", " ">>

NoContentMessage ==
    <<"N", "o", " ", "c", "o", "n", "t", "e", "n", "t", " ", "e", "x", "t", "r", "a", "c",
    "t", "e", "d", ".", " ", "T", "r", "y", " ", "a", " ", "d", "i", "f", "f", "e", "r",
    "e", "n", "t", " ", "U", "R", "L", ".">>

WarningMessage ==
    <<"P", "l", "e", "a", "s", "e", " ", "e", "n", "t", "e", "r", " ", "a", " ", "v", "a",
    "l", "i", "d", " ", "U", "R", "L", ".">>

SuccessMessage ==
    <<"S", "u", "m", "m", "a", "r", "y", " ", "g", "e", "n", "e", "r", "a", "t", "e", "d",
    " ", "s", "u", "c", "c", "e", "s", "s", "f", "u", "l", "l", "y", "!">>

BlankLine == <<"\n", "\n">>

----------------------------------------------------------------------------
(* The environment: text input, HTTP server, language-model backend *)

\* values of the URL text input
URLs == {<<>>, <<"u">>}

\* str(e) of the exceptions requests.get raises (timeout, connection error)
TimedOut ==
    <<"t", "i", "m", "e", "d", " ", "o", "u", "t">>

GetErrors == {TimedOut, <<>>}

\* final status codes requests.get returns a response with a body for
Statuses == {200, 404, 500}

\* 304 Not Modified: a final status outside 2xx, 4xx and 5xx; it has no body
NotModified == 304

\* str(e) of the HTTPError raise_for_status raises
ClientErrorMessage ==
    <<"4", "0", "4", " ", "C", "l", "i", "e", "n", "t", " ", "E", "r", "r", "o", "r">>

ServerErrorMessage ==
    <<"5", "0", "0", " ", "S", "e", "r", "v", "e", "r", " ", "E", "r", "r", "o", "r">>

\* a page of LongPageChunks * DefaultMaxTokens - (DefaultMaxTokens - 1) words:
\* the last chunk holds one word
LongPageWords == (LongPageChunks - 1) * DefaultMaxTokens + 1

LongPageText ==
    [i \in 1..(2 * LongPageWords - 1) |->
        IF i % 2 = 1 THEN (IF i % 4 = 1 THEN "w" ELSE "v")
        ELSE (IF i % 6 = 0 THEN "\n" ELSE " ")]

ErrorPageText ==
    <<"E", "r", "r", "o", "r", " ", "4", "0", "4", " ", "n", "o", "t", " ", "f", "o", "u",
    "n", "d">>

\* the response bodies a server sends
Bodies == {"empty", "blank", "short", "error", "long"}

\* response.text of a body, as the sequence of text nodes the HTML parser finds in it
TextNodes(body) ==
    CASE body = "empty" -> <<>>
      [] body = "blank" -> << <<" ", "\n">> >>
      [] body = "short" -> << <<" ", "h", "i">>, <<"y", "o", "u", "\n">> >>
      [] body = "error" -> << ErrorPageText >>
      [] body = "long"  -> << LongPageText >>

\* what requests.get did in the current run
NoFetch == [raised |-> FALSE, message |-> <<>>, status |-> 0, body |-> "empty"]

HttpOutcomes ==
    {[raised |-> TRUE, message |-> m, status |-> 0, body |-> "empty"] : m \in GetErrors}
    \cup
    {[raised |-> FALSE, message |-> <<>>, status |-> s, body |-> b] :
        s \in Statuses, b \in Bodies}
    \cup
    {[raised |-> FALSE, message |-> <<>>, status |-> NotModified, body |-> "empty"]}

\* texts the backend generates
Generated == {<<"S", "u", "m">>, <<"A", "\n", "\n", "B">>}

\* str(e) of the exceptions llm_chain.invoke raises
Refused ==
    <<"c", "o", "n", "n", "e", "c", "t", "i", "o", "n", " ", "r", "e", "f", "u", "s", "e",
    "d">>

BackendErrors == {Refused}

BackendOutcomes ==
    {[ok |-> TRUE, text |-> g] : g \in Generated}
    \cup
    {[ok |-> FALSE, text |-> e] : e \in BackendErrors}

----------------------------------------------------------------------------
(* clean_html and load_document *)

\* BeautifulSoup(...).get_text(separator=" ").strip() on a body with text nodes `nodes`
clean_html(nodes) == strip(join(<<" ">>, nodes))

\* response.raise_for_status() raises for the 4xx and 5xx status codes only
RaisesForStatus(status) == 400 <= status /\ status < 600

HTTPErrorMessage(status) ==
    IF status < 500 THEN ClientErrorMessage ELSE ServerErrorMessage

\* the string load_document returns when requests.get ends in `outcome`
load_document(outcome) ==
    IF outcome.raised THEN LoadErrorPrefix \o outcome.message
    ELSE IF RaisesForStatus(outcome.status)
         THEN LoadErrorPrefix \o HTTPErrorMessage(outcome.status)
    ELSE LET text_content == clean_html(TextNodes(outcome.body))
         IN  IF text_content = <<>> THEN NoContentMessage ELSE text_content

----------------------------------------------------------------------------
(* streamlit_mode *)

NoSlot == [k \in {} |-> <<>>]

HasSlot(ss) == "summary" \in DOMAIN ss

\* an initialisation that does not look whether the slot exists
InitSlotAlways(ss) == [summary |-> <<>>]

\* if "summary" not in st.session_state: st.session_state["summary"] = ""
InitSlot(ss) == IF HasSlot(ss) THEN ss ELSE [summary |-> <<>>]

Element(kind, text) == [kind |-> kind, text |-> text]

\* the summary section of the page: shown when the slot holds a non-empty string
SummarySection(ss) ==
    IF ss.summary # <<>>
    THEN <<Element("summary", ss.summary), Element("download", ss.summary)>>
    ELSE <<>>

Call(fn, arg) == [fn |-> fn, arg |-> arg]

\* the run is over; the page waits for the next interaction
Resting == {"idle", "idle_warning", "fetch_failed", "done"}

\* the locals of a run that has not fetched anything
FreshLocals ==
    /\ fetched' = NoFetch
    /\ document_text' = <<>>
    /\ chunks' = <<>>
    /\ it' = 0
    /\ summaries' = <<>>
    /\ backend' = <<>>

Init ==
    /\ session_state = NoSlot
    /\ pc = "idle"
    /\ url = <<>>
    /\ pressed = FALSE
    /\ fetched = NoFetch
    /\ document_text = <<>>
    /\ chunks = <<>>
    /\ it = 0
    /\ summaries = <<>>
    /\ backend = <<>>
    /\ calls = <<>>
    /\ displayed = <<>>
    /\ ct_phase = "off"
    /\ ct_text = <<>>
    /\ ct_max = 1
    /\ ct_out = <<>>

\* a rerun of the script that the button did not start
Render ==
    /\ pc \in Resting
    /\ \E u \in URLs : url' = u
    /\ pressed' = FALSE
    /\ session_state' = InitSlot(session_state)
    /\ FreshLocals
    /\ calls' = <<>>
    /\ displayed' = SummarySection(session_state')
    /\ pc' = "idle"
    /\ UNCHANGED ctVars

\* a handler that does not test the URL before it loads the document
SubmitEmptyFetches ==
    /\ pc \in Resting
    /\ url' = <<>>
    /\ pressed' = TRUE
    /\ session_state' = InitSlot(session_state)
    /\ FreshLocals
    /\ calls' = <<Call("load_document", 0)>>
    /\ displayed' = <<>>
    /\ pc' = "fetching"
    /\ UNCHANGED ctVars

\* the button is pressed while the text input is empty
SubmitEmpty ==
    /\ pc \in Resting
    /\ url' = <<>>
    /\ pressed' = TRUE
    /\ session_state' = InitSlot(session_state)
    /\ FreshLocals
    /\ calls' = <<>>
    /\ displayed' = <<Element("warning", WarningMessage)>> \o SummarySection(session_state')
    /\ pc' = "idle_warning"
    /\ UNCHANGED ctVars

\* the button is pressed with a URL: load_document is entered
Submit ==
    /\ pc \in Resting
    /\ \E u \in URLs : u # <<>> /\ url' = u
    /\ pressed' = TRUE
    /\ session_state' = InitSlot(session_state)
    /\ FreshLocals
    /\ calls' = <<Call("load_document", 0)>>
    /\ displayed' = <<>>
    /\ pc' = "fetching"
    /\ UNCHANGED ctVars

\* load_document returns a string that starts with "Error": st.error and return
FetchFailed ==
    /\ pc = "fetching"
    /\ \E outcome \in HttpOutcomes :
        /\ startswith(load_document(outcome), ErrorMarker)
        /\ fetched' = outcome
        /\ document_text' = load_document(outcome)
    /\ displayed' = Append(displayed, Element("error", document_text'))
    /\ pc' = "fetch_failed"
    /\ UNCHANGED <<session_state, url, pressed, chunks, it, summaries, backend, calls>>
    /\ UNCHANGED ctVars

\* load_document returns any other string: the chain is set up and the text chunked
StartSummarizing ==
    /\ pc = "fetching"
    /\ \E outcome \in HttpOutcomes :
        /\ ~startswith(load_document(outcome), ErrorMarker)
        /\ fetched' = outcome
        /\ document_text' = load_document(outcome)
    /\ chunks' = chunk_text(document_text', DefaultMaxTokens)
    /\ it' = 0
    /\ summaries' = <<>>
    /\ calls' = Append(calls, Call("chunk_text", 0))
    /\ pc' = "summarizing"
    /\ UNCHANGED <<session_state, url, pressed, backend, displayed>>
    /\ UNCHANGED ctVars

\* summaries.append(result_text)
OnSuccess(list, generated) == Append(list, generated)

\* a handler that gives up the summaries collected so far
OnFailureReset(list, e) == <<ChunkErrorPrefix \o e>>

\* summaries.append(f"Error processing chunk: {e}")
OnFailure(list, e) == Append(list, ChunkErrorPrefix \o e)

\* a loop that takes two chunks per iteration
NextChunkSkip(i) == i + 2

\* the for loop takes the next element of the list
NextChunk(i) == i + 1

\* one iteration of the for loop: invoke the chain on the next chunk
SummarizeChunk ==
    /\ pc = "summarizing"
    /\ it < Len(chunks)
    /\ it' = NextChunk(it)
    /\ \E outcome \in BackendOutcomes :
        /\ backend' = Append(backend, outcome)
        /\ summaries' = IF outcome.ok THEN OnSuccess(summaries, outcome.text)
                        ELSE OnFailure(summaries, outcome.text)
    /\ calls' = Append(calls, Call("invoke", it'))
    /\ UNCHANGED <<session_state, pc, url, pressed, fetched, document_text, chunks, displayed>>
    /\ UNCHANGED ctVars

\* an aggregator that separates the entries by a single line break
AggregateTight(list) == join(<<"\n">>, list)

\* "\n\n".join(summaries)
Aggregate(list) == join(BlankLine, list)

\* the loop is over: the slot is written and the page completed
Finish ==
    /\ pc = "summarizing"
    /\ it >= Len(chunks)
    /\ session_state' = [session_state EXCEPT !["summary"] = Aggregate(summaries)]
    /\ calls' = Append(calls, Call("write_slot", 0))
    /\ displayed' = displayed \o <<Element("success", SuccessMessage)>>
                        \o SummarySection(session_state')
    /\ pc' = "done"
    /\ UNCHANGED <<url, pressed, fetched, document_text, chunks, it, summaries, backend>>
    /\ UNCHANGED ctVars

Next ==
    \/ Render
    \/ SubmitEmpty
    \/ Submit
    \/ FetchFailed
    \/ StartSummarizing
    \/ SummarizeChunk
    \/ Finish

Spec == Init /\ [][Next]_vars

\* a step of the run the button started
RunStep == FetchFailed \/ StartSummarizing \/ SummarizeChunk \/ Finish

\* the one thread of the run keeps going: the HTTP call returns within its
\* timeout, every call of the backend returns a result or fails
FairSpec == Spec /\ WF_vars(RunStep)

----------------------------------------------------------------------------
(* chunk_text on its own *)

TextChars == {"a", "b", " ", "\n"}

Texts == UNION {[1..n -> TextChars] : n \in 0..MaxTextLen}

ChunkInit ==
    /\ session_state = NoSlot
    /\ pc = "idle"
    /\ url = <<>>
    /\ pressed = FALSE
    /\ fetched = NoFetch
    /\ document_text = <<>>
    /\ chunks = <<>>
    /\ it = 0
    /\ summaries = <<>>
    /\ backend = <<>>
    /\ calls = <<>>
    /\ displayed = <<>>
    /\ ct_phase = "input"
    /\ ct_text \in Texts
    /\ ct_max \in 1..MaxN
    /\ ct_out = <<>>

ChunkCall ==
    /\ ct_phase = "input"
    /\ ct_out' = chunk_text(ct_text, ct_max)
    /\ ct_phase' = "output"
    /\ UNCHANGED <<ct_text, ct_max>>
    /\ UNCHANGED <<session_state, pc, url, pressed, fetched, document_text, chunks, it,
                   summaries, backend, calls, displayed>>

ChunkNext == ChunkCall

ChunkSpec == ChunkInit /\ [][ChunkNext]_vars

----------------------------------------------------------------------------
(* Properties of chunk_text *)

\* the number of whitespace-delimited words of a string
WordCount(s) == Len(split(s))

\* the concatenation of the lists of a list of lists
Flatten(lists) == JoinRange(<<>>, lists, 1, Len(lists))

\* C1: joining the chunks chunk_text returns, in order and with single spaces,
\* gives the words of the text joined with single spaces; the words of the
\* chunks, taken chunk after chunk, are the words of the text, each once and in
\* the original order, so that no word is duplicated, dropped or cut in two.
C1_ChunksReassemble ==
    ct_phase = "output" =>
        /\ join(<<" ">>, ct_out) = join(<<" ">>, split(ct_text))
        /\ Flatten([k \in 1..Len(ct_out) |-> split(ct_out[k])]) = split(ct_text)

\* a text of three words separated by runs of whitespace, cut into two chunks
C1_Witness ==
    /\ ct_phase = "output"
    /\ ct_max = 2
    /\ WordCount(ct_text) = 3
    /\ Len(ct_out) = 2
    /\ ct_text # join(<<" ">>, split(ct_text))

\* C2: chunk_text returns ceil(W / N) chunks for a text of W words; every chunk
\* but the last holds exactly N words, the last between 1 and N, and a text
\* without words gives no chunk.
C2_ChunkSizes ==
    ct_phase = "output" =>
        LET W == WordCount(ct_text)
            N == ct_max
            k == Len(ct_out)
        IN  /\ k * N >= W
            /\ (k - 1) * N < W
            /\ \A i \in 1..(k - 1) : WordCount(ct_out[i]) = N
            /\ k > 0 => WordCount(ct_out[k]) \in 1..N
            /\ W = 0 => ct_out = <<>>

\* two chunks, the last one shorter than max_tokens
C2_Witness ==
    /\ ct_phase = "output"
    /\ Len(ct_out) = 2
    /\ WordCount(ct_out[1]) = ct_max
    /\ WordCount(ct_out[2]) < ct_max

\* a text of whitespace only gives no chunk
C2_WitnessEmpty ==
    /\ ct_phase = "output"
    /\ ct_text # <<>>
    /\ ct_out = <<>>

----------------------------------------------------------------------------
(* Properties of a run *)

InRun == pc \in {"summarizing", "done"}

\* the calls of the current run to the function fn
CallsOf(fn) == SelectSeq(calls, LAMBDA c : c.fn = fn)

IsPrefix(s, t) == Len(s) <= Len(t) /\ SubSeq(t, 1, Len(s)) = s

\* "Error processing chunk"
ChunkErrorMarker == SubSeq(ChunkErrorPrefix, 1, Len(ChunkErrorPrefix) - 2)

\* requests.get raised or returned a status outside 200..299
HttpFailed(outcome) ==
    outcome.raised \/ ~(200 <= outcome.status /\ outcome.status < 300)

\* the try block of load_document raised
LoaderRaised(outcome) ==
    outcome.raised \/ RaisesForStatus(outcome.status)

C3_Entries ==
    InRun =>
        /\ Len(summaries) = Len(backend)
        /\ Len(summaries) = it
        /\ \A i \in 1..Len(summaries) :
            IF backend[i].ok THEN summaries[i] = backend[i].text
            ELSE startswith(summaries[i], ChunkErrorMarker)
        /\ pc = "done" => Len(summaries) = Len(chunks)

C3_Step ==
    (pc = "summarizing" /\ backend' # backend) =>
        /\ IsPrefix(summaries, summaries')
        /\ Len(summaries') = Len(summaries) + 1
        /\ pc' = "summarizing"

SomeChunkFailed == \E i \in 1..Len(backend) : ~backend[i].ok

\* C3: whichever chunks fail, the run completes with one entry per chunk: the
\* generated text of a chunk that succeeded, a placeholder that begins with
\* "Error processing chunk" for one that failed, each at the chunk's position;
\* a failure leaves the entries collected before it as they are and the loop
\* goes on with the chunks after it.
C3_FaultContainment ==
    /\ []C3_Entries
    /\ [][C3_Step]_vars
    /\ (pc = "summarizing" /\ SomeChunkFailed) ~> (pc = "done" /\ SomeChunkFailed)

\* chunk 2 of at least 3 failed, chunks 1 and 3 succeeded, and the run is done
C3_Witness ==
    /\ pc = "done"
    /\ Len(chunks) >= 3
    /\ backend[1].ok
    /\ ~backend[2].ok
    /\ backend[3].ok

\* C4: when the HTTP GET raises or returns a status outside 2xx, load_document
\* returns a string that begins with "Error", the run halts in fetch-failed
\* without calling chunk_text or the chain, and the message it displays begins
\* with "Error".
C4_FetchFailureHalts ==
    (fetched # NoFetch /\ HttpFailed(fetched)) =>
        /\ startswith(document_text, ErrorMarker)
        /\ pc = "fetch_failed"
        /\ CallsOf("chunk_text") = <<>>
        /\ CallsOf("invoke") = <<>>
        /\ displayed # <<>>
        /\ \A i \in 1..Len(displayed) : startswith(displayed[i].text, ErrorMarker)

RECURSIVE TotalLen(_, _)
\* the summed lengths of the first n entries of a list of strings
TotalLen(list, n) == IF n = 0 THEN 0 ELSE TotalLen(list, n - 1) + Len(list[n])

\* agg reads: entry 1, blank line, entry 2, ..., blank line, entry k
IsBlankLineJoin(agg, list) ==
    LET k == Len(list)
        Start(i) == TotalLen(list, i - 1) + 2 * (i - 1)
    IN  IF k = 0 THEN agg = <<>>
        ELSE /\ Len(agg) = TotalLen(list, k) + 2 * (k - 1)
             /\ \A i \in 1..k :
                    SubSeq(agg, Start(i) + 1, Start(i) + Len(list[i])) = list[i]
             /\ \A i \in 1..(k - 1) :
                    /\ agg[Start(i) + Len(list[i]) + 1] = "\n"
                    /\ agg[Start(i) + Len(list[i]) + 2] = "\n"

\* C5: the aggregate written to the session slot is the run's entries in chunk
\* order with a blank line between consecutive entries, whatever the entries
\* are; none is dropped, merged with an equal one or moved.
C5_AggregateOrder ==
    pc = "done" => IsBlankLineJoin(session_state.summary, summaries)

\* a finished run of at least 3 chunks with a placeholder and two equal entries
C5_Witness ==
    /\ pc = "done"
    /\ Len(summaries) >= 3
    /\ SomeChunkFailed
    /\ summaries[1] = summaries[3]
    /\ \E i \in 1..Len(summaries) : \E j \in 1..Len(summaries[i]) : summaries[i][j] = "\n"

C6_Writes ==
    Len(CallsOf("write_slot")) = IF pc = "done" THEN 1 ELSE 0

C6_Step ==
    IF ~HasSlot(session_state)
    THEN session_state' = [summary |-> <<>>]
    ELSE IF pc = "summarizing" /\ pc' = "done"
         THEN IsBlankLineJoin(session_state'.summary, summaries)
         ELSE session_state' = session_state

\* C6: the slot is assigned once in a run that completes summarization, with
\* that run's aggregate, and every other step of every run (empty URL, failed
\* fetch, render without a button press, the steps before the loop ends)
\* leaves it as it was; the first run of a session creates the slot empty.
C6_SlotFrame ==
    /\ []C6_Writes
    /\ [][C6_Step]_vars

\* a run that ended in fetch-failed while the slot held an earlier aggregate
C6_Witness ==
    /\ pc = "fetch_failed"
    /\ HasSlot(session_state)
    /\ session_state.summary # <<>>

\* C7: when the fetch succeeds and no text is extracted, the "no content"
\* message is not passed to chunk_text or to the chain, not stored in the slot
\* and not displayed as a summary.
C7_SentinelNotProcessed ==
    (/\ fetched # NoFetch
     /\ ~HttpFailed(fetched)
     /\ clean_html(TextNodes(fetched.body)) = <<>>) =>
        /\ CallsOf("chunk_text") = <<>>
        /\ CallsOf("invoke") = <<>>
        /\ session_state.summary # NoContentMessage
        /\ \A i \in 1..Len(displayed) : displayed[i].text # NoContentMessage

C8_Warned ==
    (pressed /\ url = <<>>) =>
        /\ pc = "idle_warning"
        /\ calls = <<>>
        /\ displayed # <<>>
        /\ displayed[1] = Element("warning", WarningMessage)

C8_Step ==
    /\ (pc' = "fetching" /\ pc # "fetching") =>
            (pc \in Resting /\ pressed' /\ url' # <<>>)
    /\ (pc' = "summarizing" /\ pc # "summarizing") =>
            (pc = "fetching" /\ fetched' # NoFetch /\ document_text' = load_document(fetched'))
    /\ (pc' = "idle_warning") => (pressed' /\ url' = <<>>)

\* C8: a submission with an empty URL ends in idle-with-warning with a warning
\* on the page and no call of load_document, chunk_text or the chain; fetching
\* is entered only by a submission with a non-empty URL, summarizing only from
\* fetching, once load_document has returned.
C8_EmptyUrl ==
    /\ []C8_Warned
    /\ [][C8_Step]_vars

\* an empty submission made after a run that had produced a summary
C8_Witness ==
    /\ pc = "idle_warning"
    /\ pressed
    /\ session_state.summary # <<>>

C9_Order ==
    InRun =>
        LET invoked == CallsOf("invoke")
        IN  /\ Len(invoked) = it
            /\ \A j \in 1..Len(invoked) : invoked[j].arg = j
            /\ it <= Len(chunks)
            /\ Len(backend) = Len(invoked)
            /\ pc = "done" => it = Len(chunks)

C9_Step ==
    /\ (pc = "summarizing" /\ calls' # calls /\ pc' = "summarizing") =>
            /\ Len(CallsOf("invoke")') = Len(CallsOf("invoke")) + 1
            /\ Len(backend') = Len(backend) + 1
    /\ (pc = "summarizing" /\ pc' = "done") =>
            /\ it = Len(chunks)
            /\ CallsOf("invoke")' = CallsOf("invoke")
    /\ (pc = "summarizing" /\ it < Len(chunks)) => session_state' = session_state

\* C9: in the summarizing stage the chain is invoked once per chunk, on chunk
\* 1, 2, ..., k in this order, each call made after the previous one has
\* returned or failed; the slot is written after all k chunks are processed,
\* and the run reaches done.
C9_Sequential ==
    /\ []C9_Order
    /\ [][C9_Step]_vars
    /\ (pc = "summarizing") ~> (pc = "done")

\* a finished run over at least 3 chunks
C9_Witness ==
    /\ pc = "done"
    /\ Len(chunks) >= 3
    /\ Len(CallsOf("invoke")) = Len(chunks)

\* C10: a run ends in fetch-failed exactly when load_document's HTTP fetch
\* failed; a page that was fetched and has text goes on to summarizing,
\* whatever the text is.
C10_PrefixTest ==
    fetched # NoFetch => (pc = "fetch_failed" <=> LoaderRaised(fetched))

====
